---------------------------- MODULE Spec2Model ----------------------------
(***************************************************************************)
(* HybridOptimizer (src/src/HybridOptimizer.cc): the Levenberg-Marquardt / *)
(* BFGS hybrid least-squares optimizer, its single step and its driver.    *)
(*                                                                         *)
(* The model is the instance with one parameter (n = 1) and two residuals  *)
(* (m = 2): x, h, g, y, v and the matrices A and B are 1x1, f and J have   *)
(* two entries.  Doubles are exact rationals <<num, den>> (den > 0); a     *)
(* denominator 0 is an IEEE special value: <<1,0>> = +inf, <<-1,0>> = -inf,*)
(* <<0,0>> = NaN.  The Objective is the environment: what computeFunction, *)
(* computeDerivative and tryStep answer is drawn from small sets.          *)
(***************************************************************************)
EXTENDS Integers, Sequences, FiniteSets, TLC

\* ------------------------------------------------------------------ bounds
\* Largest numerator/denominator a stored double may have in the model.
MaxMag == 20000
\* Number of step() calls (direct or through run()) explored.
MaxSteps == 5
\* Number of proposals tryStep modifies or refuses.
MaxVetoes == 2

\* --------------------------------------------------- double arithmetic
AbsInt(i) == IF i < 0 THEN -i ELSE i

SgnInt(i) == IF i < 0 THEN -1 ELSE IF i = 0 THEN 0 ELSE 1

RECURSIVE Gcd(_, _)
Gcd(a, b) == IF b = 0 THEN a ELSE Gcd(b, a % b)

\* Out-of-range marker: a value the model does not represent.
Huge == <<0, -1>>

IsHuge(a) == a[2] < 0

IsFinite(a) == a[2] > 0

IsNaN(a) == a[1] = 0 /\ a[2] = 0

\* The double num/den in lowest terms.
Rat(num, den) ==
    IF den = 0 THEN <<SgnInt(num), 0>>
    ELSE LET k == Gcd(AbsInt(num), AbsInt(den))
             s == IF den < 0 THEN -1 ELSE 1
             r == <<s * (num \div k), s * (den \div k)>>
         IN IF AbsInt(r[1]) > MaxMag \/ r[2] > MaxMag THEN Huge ELSE r

R(i) == <<i, 1>>

Zero == R(0)

Inf == <<1, 0>>

NaN == <<0, 0>>

Neg(a) == IF IsHuge(a) THEN Huge ELSE <<-a[1], a[2]>>

Fabs(a) == IF IsHuge(a) THEN Huge ELSE <<AbsInt(a[1]), a[2]>>

Add(a, b) ==
    IF IsHuge(a) \/ IsHuge(b) THEN Huge
    ELSE IF a[2] = 0 \/ b[2] = 0
         THEN (IF IsNaN(a) \/ IsNaN(b) \/ (a[2] = 0 /\ b[2] = 0 /\ a[1] # b[1])
               THEN NaN ELSE IF a[2] = 0 THEN a ELSE b)
         ELSE Rat(a[1] * b[2] + b[1] * a[2], a[2] * b[2])

Sub(a, b) == Add(a, Neg(b))

Mul(a, b) ==
    IF IsHuge(a) \/ IsHuge(b) THEN Huge
    ELSE IF a[2] = 0 \/ b[2] = 0
         THEN (IF a[1] = 0 \/ b[1] = 0 THEN NaN ELSE <<SgnInt(a[1]) * SgnInt(b[1]), 0>>)
         ELSE LET k1 == Gcd(AbsInt(a[1]), b[2])
                  k2 == Gcd(AbsInt(b[1]), a[2])
              IN Rat((a[1] \div k1) * (b[1] \div k2), (a[2] \div k2) * (b[2] \div k1))

\* a / b.  0/0 is NaN; x/0 with x # 0 is an infinity whose sign is the sign of
\* the zero, which the model does not represent.
Div(a, b) ==
    IF IsHuge(a) \/ IsHuge(b) \/ a[2] = 0 \/ b[2] = 0 THEN Huge
    ELSE IF b[1] = 0
         THEN (IF a[1] = 0 THEN NaN ELSE Huge)
         ELSE Mul(a, Rat(b[2], b[1]))

\* a < b as IEEE compares: false when either side is NaN.
Lt(a, b) ==
    IF IsHuge(a) \/ IsHuge(b) \/ IsNaN(a) \/ IsNaN(b) THEN FALSE
    ELSE IF a[2] = 0 /\ b[2] = 0 THEN a[1] < b[1]
         ELSE IF a[2] = 0 THEN a[1] < 0
              ELSE IF b[2] = 0 THEN b[1] > 0
                   ELSE a[1] * b[2] < b[1] * a[2]

Gt(a, b) == Lt(b, a)

Le(a, b) ==
    IF IsHuge(a) \/ IsHuge(b) \/ IsNaN(a) \/ IsNaN(b) THEN FALSE
    ELSE a = b \/ Lt(a, b)

Ge(a, b) == Le(b, a)

\* std::max(a, b) and std::min(a, b): (a < b) ? b : a and (b < a) ? b : a.
Max(a, b) == IF Lt(a, b) THEN b ELSE a

Min(a, b) == IF Lt(b, a) THEN b ELSE a

\* 1.0 + sqrtEps, sqrtEps = sqrt(DBL_EPSILON) = 2^-26: the comparison
\* qn <= (1.0 + sqrtEps) * q, for q >= 0.
SqrtEpsInv == 67108864

LeTol(qn, q) ==
    IF Le(qn, q) THEN TRUE
    ELSE IF ~(IsFinite(qn) /\ IsFinite(q)) THEN FALSE
         ELSE LET d == Sub(qn, q)
              IN ~IsHuge(d) /\ (q[1] * d[2]) \div (d[1] * q[2]) >= SqrtEpsInv

\* std::pow(c, 3.0), evaluated at c rounded to the nearest integer (the
\* precision the model keeps for the LM gain ratio).
Pow3(c) ==
    IF ~IsFinite(c) THEN Huge
    ELSE LET r == (2 * c[1] + c[2]) \div (2 * c[2])
         IN IF AbsInt(r) > 27 THEN Huge ELSE R(r * r * r)

\* ----------------------------------------------------------- vectors (m = 2)
squaredNorm(fv) == R(fv[1] * fv[1] + fv[2] * fv[2])

lpNormInf(fv) == R(IF AbsInt(fv[1]) > AbsInt(fv[2]) THEN AbsInt(fv[1]) ELSE AbsInt(fv[2]))

\* J.adjoint() * f  (1x2 times 2x1).
adjointTimes(Jv, fv) == R(Jv[1] * fv[1] + Jv[2] * fv[2])

\* rankUpdate(J.adjoint()) on a 1x1 matrix: adds J^T J.
rankUpdateJ(Mv, Jv) == Add(Mv, squaredNorm(Jv))

\* M.rankUpdate(u, alpha): M += alpha * u * u^T.
rankUpdate(Mv, u, alpha) == Add(Mv, Mul(Mul(alpha, u), u))

\* ------------------------------------------------------- flags and enums
STEP_ACCEPTED == "STEP_ACCEPTED"

STEP_MODIFIED == "STEP_MODIFIED"

STEP_INVALID == "STEP_INVALID"

SUCCESS_FTOL == "SUCCESS_FTOL"

SUCCESS_GTOL == "SUCCESS_GTOL"

FAILURE_MINSTEP == "FAILURE_MINSTEP"

FAILURE_MINTRUST == "FAILURE_MINTRUST"

FAILURE_MAXITER == "FAILURE_MAXITER"

\* The FINISHED mask: every SUCCESS_* and FAILURE_* bit.
FINISHED == {SUCCESS_FTOL, SUCCESS_GTOL, FAILURE_MINSTEP, FAILURE_MINTRUST, FAILURE_MAXITER}

StepFlags == {STEP_ACCEPTED, STEP_MODIFIED, STEP_INVALID}

LM == "LM"

BFGS == "BFGS"

VALID == "VALID"

MODIFIED == "MODIFIED"

INVALID == "INVALID"

StepResult == {VALID, MODIFIED, INVALID}

\* if (doStep): INVALID is the only StepResult that converts to false.
AsBool(doStep) == doStep # INVALID

\* ------------------------------------------------------------ environment
\* Residual vectors and Jacobians the Objective answers with.
FVals == {<<2, 2>>, <<1, 0>>}

JVals == {<<1, 1>>, <<1, 0>>}

\* Starting parameters.
XVals == {R(1)}

\* HybridOptimizerControl values.
Controls ==
    {[fTol |-> R(1), gTol |-> R(1), minStep |-> Rat(1, 8), delta0 |-> R(1),
      tau |-> Rat(1, 16), maxIter |-> k, useCholesky |-> (k > 0)] : k \in {0, 2}}

\* An Objective whose accepted steps look linear to LM: the gradient J^T f
\* stays 1 while Q = |f|^2 / 2 is large, so normInfGNew < 0.02 * QNew.
NearLinearF == {<<12, 11>>, <<11, 10>>, <<10, 9>>, <<9, 8>>, <<8, 7>>}

NearLinearJ == {<<1, -1>>}

NearLinearControls ==
    {[fTol |-> R(1), gTol |-> Rat(1, 2), minStep |-> Rat(1, 16), delta0 |-> R(1),
      tau |-> R(3), maxIter |-> k, useCholesky |-> (k > 0)] : k \in {0, 2}}

\* An Objective and tolerances with which a point that meets fTol and gTol
\* can be followed by an accepted point that meets neither.
ToleranceF == {<<4, 4>>, <<3, 3>>, <<4, 0>>}

ToleranceJ == {<<1, 0>>}

ToleranceControls ==
    {[fTol |-> R(3), gTol |-> R(3), minStep |-> Rat(1, 8), delta0 |-> R(1),
      tau |-> Rat(1, 16), maxIter |-> k, useCholesky |-> (k > 0)] : k \in {0, 2}}

\* What tryStep may do to a proposal xNew = x + h: accept it, overwrite it
\* (with x itself or with the point half way), or refuse it.
TryStepAnswers ==
    [doStep : {VALID, INVALID}, sel : {"none"}] \cup [doStep : {MODIFIED}, sel : {"stay", "half"}]

tryStep(xv, xNewv, ans) ==
    IF ans.doStep # MODIFIED THEN xNewv
    ELSE IF ans.sel = "stay" THEN xv
         ELSE Add(xv, Mul(Rat(1, 2), Sub(xNewv, xv)))

\* ------------------------------------------------------------------ state
VARIABLES
    impl,   \* HybridOptimizer::_impl: the members of HybridOptimizer::Impl
    obj,    \* Impl::obj, the Objective: the answers F and J it can give
    pc,     \* "idle", or "run" while run() is inside its loop
    n,      \* run()'s loop counter
    obs     \* what the latest operation did (history)

vars == <<impl, obj, pc, n, obs>>

\* Impl with a seeded fault: the constructor leaves QNew at +infinity and
\* starts nu at 1.
ImplStaleQNew(parameters, control, fEv, JEv) ==
    LET A0  == rankUpdateJ(Zero, JEv)
        g0  == adjointTimes(JEv, fEv)
        mu0 == Mul(control.tau, Fabs(A0))
        Q0  == Mul(Rat(1, 2), squaredNorm(fEv))
    IN [ctrl |-> control, method |-> LM, state |-> {}, count |-> 0, rank |-> 1,
        x |-> parameters, xNew |-> parameters,
        f |-> fEv, fNew |-> fEv, J |-> JEv, JNew |-> JEv,
        h |-> Zero, y |-> Zero, v |-> Zero,
        A |-> Add(A0, mu0), B |-> R(1),
        g |-> g0, gNew |-> Zero,
        normInfF |-> lpNormInf(fEv), normInfG |-> Fabs(g0),
        Q |-> Q0, QNew |-> Inf, mu |-> mu0, nu |-> R(1), delta |-> control.delta0]

\* -------------------------------------------------------------- constructor
\* HybridOptimizer::Impl::Impl: fEv and JEv are what computeFunction and
\* computeDerivative answer at the starting point.
Impl(parameters, control, fEv, JEv) ==
    LET A0  == rankUpdateJ(Zero, JEv)
        g0  == adjointTimes(JEv, fEv)
        mu0 == Mul(control.tau, Fabs(A0))
        Q0  == Mul(Rat(1, 2), squaredNorm(fEv))
    IN [ctrl |-> control, method |-> LM, state |-> {}, count |-> 0, rank |-> 1,
        x |-> parameters, xNew |-> parameters,
        f |-> fEv, fNew |-> fEv, J |-> JEv, JNew |-> JEv,
        h |-> Zero, y |-> Zero, v |-> Zero,
        A |-> Add(A0, mu0), B |-> R(1),
        g |-> g0, gNew |-> Zero,
        normInfF |-> lpNormInf(fEv), normInfG |-> Fabs(g0),
        Q |-> Q0, QNew |-> Q0, mu |-> mu0, nu |-> R(2), delta |-> control.delta0]

\* ------------------------------------------------------------------- step()
\* checkStep with a seeded fault: state = bad instead of state |= bad.
checkStepOverwrites(s, stepNorm, bad) ==
    IF ~Gt(stepNorm, Mul(s.ctrl.minStep, Add(Fabs(s.x), s.ctrl.minStep)))
    THEN [ok |-> FALSE, state |-> {bad}]
    ELSE [ok |-> TRUE, state |-> s.state]

\* bool checkStep(stepNorm, bad): the result and the state bitmask it leaves.
checkStep(s, stepNorm, bad) ==
    IF ~Gt(stepNorm, Mul(s.ctrl.minStep, Add(Fabs(s.x), s.ctrl.minStep)))
    THEN [ok |-> FALSE, state |-> s.state \cup {bad}]
    ELSE [ok |-> TRUE, state |-> s.state]

\* HybridOptimizer::Impl::solve(m) for a 1x1 matrix m.  In eigen mode the
\* single eigenvalue is below threshold = eigenvalue * epsilon only when it is
\* negative.
solve(s, m) ==
    IF s.ctrl.useCholesky
    THEN [s EXCEPT !.h = Div(Neg(s.g), m)]
    ELSE LET i == IF Lt(m, Zero) THEN 1 ELSE 0
             r == 1 - i
         IN [s EXCEPT !.rank = r,
                      !.h = IF r = 0 THEN Zero ELSE Mul(Div(R(1), m), Neg(s.g))]

\* The locals of step() at its entry, around the object s.
Enter(s) ==
    [impl |-> s, isBetter |-> FALSE, shouldSwitchMethod |-> FALSE,
     normH |-> Zero, normInfGNew |-> Zero, doStep |-> "none", ret |-> "none",
     methodIn |-> s.method, nFunction |-> 0, nDerivative |-> 0,
     committed |-> FALSE, updatedB |-> FALSE, freshG |-> FALSE, near |-> FALSE,
     tmp |-> {}]

\* Lines 131-141: the step direction and the first minimum-step guard.
Direction(c) ==
    LET s  == c.impl
        s1 == solve(s, IF s.method = LM THEN s.A ELSE s.B)
        nh == Fabs(s1.h)
        ck == checkStep(s1, nh, FAILURE_MINSTEP)
    IN [c EXCEPT !.impl = [s1 EXCEPT !.state = ck.state],
                 !.normH = nh,
                 !.tmp = @ \cup {Mul(s.ctrl.minStep, Add(Fabs(s.x), s.ctrl.minStep))},
                 !.ret = IF ck.ok THEN "none" ELSE "MINSTEP"]

\* vetFlags with a seeded fault: the mask of line 165 is not complemented.
vetFlagsMaskNotComplemented(st, doStep) ==
    IF doStep = MODIFIED THEN st \cup {STEP_MODIFIED}
    ELSE IF doStep = INVALID THEN st \cup {STEP_INVALID}
         ELSE st \cap {STEP_MODIFIED, STEP_INVALID}

\* Lines 148-166: the STEP_MODIFIED / STEP_INVALID bits after tryStep.
vetFlags(st, doStep) ==
    IF doStep = MODIFIED THEN st \cup {STEP_MODIFIED}
    ELSE IF doStep = INVALID THEN st \cup {STEP_INVALID}
         ELSE st \ {STEP_MODIFIED, STEP_INVALID}

\* Lines 142-166: trust-region clipping, the proposal and its vetting.
Propose(c, ans) ==
    IF c.ret # "none" THEN c
    ELSE
    LET s  == c.impl
        hc == IF s.method = BFGS /\ Gt(c.normH, s.delta)
              THEN Mul(s.h, Div(s.delta, c.normH)) ELSE s.h
        xp == Add(s.x, hc)
        xn == tryStep(s.x, xp, ans)
        s1 == [s EXCEPT !.h = hc, !.xNew = xn, !.state = vetFlags(@, ans.doStep)]
    IN IF ans.doStep = MODIFIED
       THEN LET hm == Sub(xn, s.x)
                nh == Fabs(hm)
                s2 == [s1 EXCEPT !.h = hm]
                ck == checkStep(s2, nh, FAILURE_MINSTEP)
            IN [c EXCEPT !.impl = [s2 EXCEPT !.state = ck.state],
                         !.normH = nh, !.doStep = ans.doStep,
                         !.tmp = @ \cup {xp},
                         !.ret = IF ck.ok THEN "none" ELSE "MINSTEP"]
       ELSE IF ans.doStep = INVALID
            THEN [c EXCEPT !.impl = [s1 EXCEPT !.QNew = Inf], !.doStep = ans.doStep]
            ELSE [c EXCEPT !.impl = s1, !.doStep = ans.doStep]

\* Evaluate with a seeded fault: the if (doStep) of line 167 is missing.
EvaluateUnguarded(c, fEv, JEv) ==
    IF c.ret # "none" THEN c
    ELSE [c EXCEPT !.impl = [c.impl EXCEPT !.fNew = fEv,
                                           !.QNew = Mul(Rat(1, 2), squaredNorm(fEv)),
                                           !.JNew = JEv],
                   !.nFunction = @ + 1, !.nDerivative = @ + 1]

\* Lines 167-173: the evaluation of the objective at xNew.
Evaluate(c, fEv, JEv) ==
    IF c.ret # "none" \/ ~AsBool(c.doStep) THEN c
    ELSE [c EXCEPT !.impl = [c.impl EXCEPT !.fNew = fEv,
                                           !.QNew = Mul(Rat(1, 2), squaredNorm(fEv)),
                                           !.JNew = JEv],
                   !.nFunction = @ + 1, !.nDerivative = @ + 1]

\* Lines 175-179: the trial gradient.
TrialGradient(c) ==
    LET s == c.impl
    IN IF c.ret # "none" THEN c
       ELSE IF AsBool(c.doStep) /\ (s.method = BFGS \/ Lt(s.QNew, s.Q))
            THEN LET gn == adjointTimes(s.JNew, s.fNew)
                 IN [c EXCEPT !.impl = [s EXCEPT !.gNew = gn],
                              !.normInfGNew = Fabs(gn), !.freshG = TRUE]
            ELSE c

\* Line 182: the BFGS acceptance test.
bfgsIsBetter(QNew, Q, normInfGNew, normInfG) ==
    Lt(QNew, Q) \/ (LeTol(QNew, Q) /\ Lt(normInfGNew, normInfG))

\* delta /= 2.0 followed by checkStep(delta, FAILURE_MINTRUST).
Shrink(c) ==
    LET s1 == [c.impl EXCEPT !.delta = Div(@, R(2))]
        ck == checkStep(s1, s1.delta, FAILURE_MINTRUST)
    IN [c EXCEPT !.impl = [s1 EXCEPT !.state = ck.state],
                 !.ret = IF ck.ok THEN "none" ELSE "MINTRUST"]

\* Lines 181-195: the BFGS branch.
BranchBFGS(c) ==
    LET s  == c.impl
        c1 == [c EXCEPT !.isBetter = bfgsIsBetter(s.QNew, s.Q, c.normInfGNew, s.normInfG),
                        !.shouldSwitchMethod = Ge(c.normInfGNew, s.normInfG)]
    IN IF Lt(s.QNew, s.Q)
       THEN LET Jh  == Mul(squaredNorm(s.J), Mul(s.h, s.h))
                den == Neg(Sub(Mul(s.h, s.g), Mul(Rat(1, 2), Jh)))
                rho == Div(Sub(s.Q, s.QNew), den)
                c2  == [c1 EXCEPT !.tmp = @ \cup {rho}]
            IN IF Gt(rho, Rat(3, 4))
               THEN [c2 EXCEPT !.impl = [s EXCEPT !.delta = Max(@, Mul(R(3), c.normH))]]
               ELSE IF Lt(rho, Rat(1, 4)) THEN Shrink(c2) ELSE c2
       ELSE Shrink(c1)

\* rebuildA with a seeded fault: the damping mu is not added.
rebuildANoDamping(Jv, muv) == rankUpdateJ(Zero, Jv)

\* Lines 208-210: A = J^T J + mu I, rebuilt.
rebuildA(Jv, muv) == Add(rankUpdateJ(Zero, Jv), muv)

\* lmReject with a seeded fault: the LM rejection also halves delta.
lmRejectShrinksDelta(s) ==
    [s EXCEPT !.A = Add(@, Mul(s.mu, Sub(s.nu, R(1)))),
              !.mu = Mul(@, s.nu),
              !.nu = Mul(@, R(2)),
              !.delta = Div(@, R(2))]

\* lmReject with a seeded fault: nu *= 4.0.
lmRejectQuadruples(s) ==
    [s EXCEPT !.A = Add(@, Mul(s.mu, Sub(s.nu, R(1)))),
              !.mu = Mul(@, s.nu),
              !.nu = Mul(@, R(4))]

\* Lines 213-216: the LM damping after a proposal that is no improvement.
lmReject(s) ==
    [s EXCEPT !.A = Add(@, Mul(s.mu, Sub(s.nu, R(1)))),
              !.mu = Mul(@, s.nu),
              !.nu = Mul(@, R(2))]

\* Lines 196-218: the LM branch.
BranchLM(c) ==
    LET s == c.impl
    IN IF Lt(s.QNew, s.Q)
       THEN LET rho == Div(Sub(s.Q, s.QNew),
                           Mul(Rat(-1, 2), Mul(s.h, Sub(s.g, Mul(s.mu, s.h)))))
                mu1 == Mul(s.mu, Max(Rat(1, 3), Sub(R(1), Pow3(Sub(Mul(R(2), rho), R(1))))))
                near == Lt(Min(c.normInfGNew, Sub(s.Q, s.QNew)), Mul(Rat(1, 50), s.QNew))
                cnt == IF near THEN s.count + 1 ELSE 0
                s1  == [s EXCEPT !.mu = mu1, !.nu = R(2), !.count = cnt,
                                 !.A = IF cnt # 3 THEN rebuildA(s.JNew, mu1) ELSE @]
            IN [c EXCEPT !.impl = s1, !.isBetter = TRUE, !.near = near,
                         !.shouldSwitchMethod = (near /\ cnt = 3),
                         !.tmp = @ \cup {rho}]
       ELSE LET s1 == lmReject(s)
            IN [c EXCEPT !.impl = s1, !.shouldSwitchMethod = Ge(s1.nu, R(32))]

\* Lines 181-219: the trust-region update, then the return of an INVALID step.
TrustRegion(c) ==
    IF c.ret # "none" THEN c
    ELSE LET c1 == IF c.impl.method = BFGS THEN BranchBFGS(c) ELSE BranchLM(c)
         IN IF c1.ret = "none" /\ ~AsBool(c1.doStep) THEN [c1 EXCEPT !.ret = "INVALID"] ELSE c1

\* UpdateB with a seeded fault: B is updated only while the method is BFGS.
UpdateBOnlyInBFGS(c) ==
    IF c.ret # "none" \/ c.impl.method # BFGS THEN c
    ELSE LET s  == c.impl
             yv == Add(Mul(squaredNorm(s.JNew), s.h), Sub(s.gNew, s.g))
             hy == Mul(s.h, yv)
         IN IF Gt(hy, Zero)
            THEN LET vv == Mul(s.B, s.h)
                     hv == Mul(s.h, vv)
                     B1 == rankUpdate(s.B, vv, Div(R(-1), hv))
                     B2 == rankUpdate(B1, yv, Div(R(1), hy))
                 IN [c EXCEPT !.impl = [s EXCEPT !.y = yv, !.v = vv, !.B = B2],
                              !.updatedB = TRUE, !.tmp = @ \cup {hy, hv, B1}]
            ELSE [c EXCEPT !.impl = [s EXCEPT !.y = yv], !.tmp = @ \cup {hy}]

\* Lines 221-228: the BFGS update of B.
UpdateB(c) ==
    IF c.ret # "none" THEN c
    ELSE LET s  == c.impl
             yv == Add(Mul(squaredNorm(s.JNew), s.h), Sub(s.gNew, s.g))
             hy == Mul(s.h, yv)
         IN IF Gt(hy, Zero)
            THEN LET vv == Mul(s.B, s.h)
                     hv == Mul(s.h, vv)
                     B1 == rankUpdate(s.B, vv, Div(R(-1), hv))
                     B2 == rankUpdate(B1, yv, Div(R(1), hy))
                 IN [c EXCEPT !.impl = [s EXCEPT !.y = yv, !.v = vv, !.B = B2],
                              !.updatedB = TRUE, !.tmp = @ \cup {hy, hv, B1}]
            ELSE [c EXCEPT !.impl = [s EXCEPT !.y = yv], !.tmp = @ \cup {hy}]

\* successFlags with a seeded fault: the norms are tested with < instead of
\* !(... > ...).
successFlagsStrict(s) ==
    s.state \cup (IF Lt(s.normInfF, s.ctrl.fTol) THEN {SUCCESS_FTOL} ELSE {})
            \cup (IF Lt(s.normInfG, s.ctrl.gTol) THEN {SUCCESS_GTOL} ELSE {})

\* Lines 238-243: the SUCCESS bits of a newly accepted point.
successFlags(s) ==
    s.state \cup (IF ~Gt(s.normInfF, s.ctrl.fTol) THEN {SUCCESS_FTOL} ELSE {})
            \cup (IF ~Gt(s.normInfG, s.ctrl.gTol) THEN {SUCCESS_GTOL} ELSE {})

\* Lines 230-244: the commit of an accepted proposal.
Commit(c) ==
    IF c.ret # "none" \/ ~c.isBetter THEN c
    ELSE LET s  == c.impl
             s1 == [s EXCEPT !.x = s.xNew, !.f = s.fNew, !.Q = s.QNew, !.J = s.JNew,
                             !.g = s.gNew, !.normInfF = lpNormInf(s.fNew),
                             !.normInfG = c.normInfGNew]
         IN [c EXCEPT !.impl = [s1 EXCEPT !.state = successFlags(s1)], !.committed = TRUE]

\* SwitchMethod with a seeded fault: shouldSwitchMethod is ignored.
SwitchMethodSkipped(c) == c

\* Lines 246-256: the method switch.
SwitchMethod(c) ==
    IF c.ret # "none" \/ ~c.shouldSwitchMethod THEN c
    ELSE LET s == c.impl
         IN IF s.method = BFGS
            THEN [c EXCEPT !.impl = [s EXCEPT !.A = rebuildA(s.J, s.mu), !.method = LM]]
            ELSE [c EXCEPT !.impl =
                     [s EXCEPT !.delta = Max(Mul(Mul(Rat(3, 2), s.ctrl.minStep),
                                                 Add(squaredNorm(s.f), s.ctrl.minStep)),
                                             Mul(Rat(1, 5), c.normH)),
                               !.method = BFGS]]

\* Lines 258-262: STEP_ACCEPTED.
acceptedFlag(st, isBetter) ==
    IF isBetter THEN st \cup {STEP_ACCEPTED} ELSE st \ {STEP_ACCEPTED}

Finish(c) ==
    IF c.ret # "none" THEN c
    ELSE [c EXCEPT !.impl = [c.impl EXCEPT !.state = acceptedFlag(@, c.isBetter)],
                   !.ret = "end"]

\* HybridOptimizer::Impl::step(), with the Objective's answers ans (tryStep)
\* and fEv, JEv (computeFunction, computeDerivative).
step(s, ans, fEv, JEv) ==
    Finish(SwitchMethod(Commit(UpdateB(TrustRegion(TrialGradient(
        Evaluate(Propose(Direction(Enter(s)), ans), fEv, JEv)))))))

\* Every double the step stored or compared is one the model represents.
Representable(c) ==
    LET s == c.impl
    IN \A a \in {s.x, s.xNew, s.h, s.y, s.v, s.A, s.B, s.g, s.gNew, s.Q,
                 s.mu, s.nu, s.delta, c.normH, c.normInfGNew} \cup c.tmp : ~IsHuge(a)

\* ------------------------------------------------------------------ history
\* After construction: computeFunction and computeDerivative were called once
\* each (lines 112 and 117), no step was made.
Constructed ==
    [op |-> "Impl", nSteps |-> 0, ret |-> "none", methodIn |-> LM, doStep |-> "none",
     nFunction |-> 1, nDerivative |-> 1, isBetter |-> FALSE, shouldSwitchMethod |-> FALSE,
     committed |-> FALSE, updatedB |-> FALSE, freshG |-> FALSE, normH |-> Zero,
     nVetoes |-> 0, rejectRun |-> 0, runSteps |-> 0, runSetMaxIter |-> FALSE,
     near |-> FALSE, nearRun |-> 0]

\* What the step c did, recorded after the history o.
Observe(o, c) ==
    [o EXCEPT !.op = IF pc = "run" THEN "run" ELSE "step",
              !.runSteps = IF pc = "run" THEN @ + 1 ELSE @,
              !.nSteps = @ + 1, !.ret = c.ret, !.methodIn = c.methodIn,
              !.doStep = c.doStep, !.nFunction = c.nFunction, !.nDerivative = c.nDerivative,
              !.isBetter = c.isBetter, !.shouldSwitchMethod = c.shouldSwitchMethod,
              !.committed = c.committed, !.updatedB = c.updatedB, !.freshG = c.freshG,
              !.normH = c.normH, !.near = c.near,
              !.nearRun = IF c.methodIn = LM /\ c.committed
                          THEN (IF c.near THEN (IF @ >= 3 THEN 1 ELSE @ + 1) ELSE 0)
                          ELSE @,
              !.nVetoes = IF c.doStep \in {MODIFIED, INVALID} THEN @ + 1 ELSE @,
              !.rejectRun = IF @ >= 0 /\ c.methodIn = LM /\ c.ret = "end" /\ ~c.isBetter
                            THEN @ + 1 ELSE -1]

\* ------------------------------------------------------------ specification
\* The construction of an optimizer from parameters in Xs and a control in
\* Cs, around an Objective that answers with residuals Fs and Jacobians Js.
Construct(Xs, Cs, Fs, Js) ==
    \E x0 \in Xs, control \in Cs, fEv \in Fs, JEv \in Js :
        /\ impl = Impl(x0, control, fEv, JEv)
        /\ obj = [F |-> Fs, J |-> Js]
        /\ pc = "idle"
        /\ n = 0
        /\ obs = Constructed

Init == Construct(XVals, Controls, FVals, JVals)

\* One call of _impl->step(), the Objective answering within its budget.
DoStep ==
    \E ans \in TryStepAnswers, fEv \in obj.F, JEv \in obj.J :
       /\ ans.doStep = VALID \/ obs.nVetoes < MaxVetoes
       /\ \E c \in {step(impl, ans, fEv, JEv)} :
             /\ Representable(c)
             /\ impl' = c.impl
             /\ obs' = Observe(obs, c)
             /\ obj' = obj

\* int HybridOptimizer::step()
Step ==
    /\ pc = "idle"
    /\ obs.nSteps < MaxSteps
    /\ DoStep
    /\ UNCHANGED <<pc, n>>

\* int HybridOptimizer::run(): entry, n = 0.
RunBegin ==
    /\ pc = "idle"
    /\ obs.nSteps + (IF impl.ctrl.maxIter > 0 THEN impl.ctrl.maxIter ELSE 0) <= MaxSteps
    /\ pc' = "run"
    /\ n' = 0
    /\ obs' = [obs EXCEPT !.op = "run", !.runSteps = 0, !.runSetMaxIter = FALSE]
    /\ UNCHANGED <<impl, obj>>

\* RunIter with a seeded fault: the FINISHED test is made before the step
\* instead of after it.
RunIterTestsFirst ==
    /\ pc = "run"
    /\ n < impl.ctrl.maxIter
    /\ IF impl.state \cap FINISHED # {}
       THEN pc' = "idle" /\ UNCHANGED <<impl, obj, n, obs>>
       ELSE DoStep /\ pc' = "run" /\ n' = n + 1

\* RunIter with a seeded fault: the FINISHED test of line 294 is missing.
RunIterNoReturn ==
    /\ pc = "run"
    /\ n < impl.ctrl.maxIter
    /\ DoStep
    /\ pc' = "run"
    /\ n' = n + 1

\* The loop body of run(): one step, then the FINISHED test.
RunIter ==
    /\ pc = "run"
    /\ n < impl.ctrl.maxIter
    /\ DoStep
    /\ IF impl'.state \cap FINISHED # {}
       THEN pc' = "idle" /\ n' = n
       ELSE pc' = "run" /\ n' = n + 1

\* The loop of run() is exhausted: FAILURE_MAXITER.
RunEnd ==
    /\ pc = "run"
    /\ ~(n < impl.ctrl.maxIter)
    /\ impl' = [impl EXCEPT !.state = @ \cup {FAILURE_MAXITER}]
    /\ obs' = [obs EXCEPT !.runSetMaxIter = TRUE]
    /\ pc' = "idle"
    /\ n' = n
    /\ obj' = obj

Next == Step \/ RunBegin \/ RunIter \/ RunEnd

Spec == Init /\ [][Next]_vars

\* The same optimizer around the near-linear Objective.
InitNearLinear == Construct(XVals, NearLinearControls, NearLinearF, NearLinearJ)

SpecNearLinear == InitNearLinear /\ [][Next]_vars

\* The same optimizer around the Objective of the tolerance scenario.
InitTolerance == Construct(XVals, ToleranceControls, ToleranceF, ToleranceJ)

SpecTolerance == InitTolerance /\ [][Next]_vars

\* --------------------------------------------------------------- properties
\* The transition is one call of Impl::step().
Stepped == obs'.nSteps = obs.nSteps + 1

\* max(maxIter, 0): the number of iterations the loop of run() allows.
LoopLimit == IF impl.ctrl.maxIter > 0 THEN impl.ctrl.maxIter ELSE 0

\* C1: sticky terminals.  Over every sequence of step() and run() calls a
\* SUCCESS_* or FAILURE_* bit that is set stays set; the only bits a
\* transition ever clears are STEP_ACCEPTED, STEP_MODIFIED and STEP_INVALID.
C1_StickyTerminals ==
    [][/\ (impl.state \cap {SUCCESS_FTOL, SUCCESS_GTOL, FAILURE_MINSTEP, FAILURE_MINTRUST,
                           FAILURE_MAXITER}) \subseteq impl'.state
       /\ (impl.state \ impl'.state) \subseteq StepFlags]_vars

\* A step that ran to its end (so it set no FAILURE_* bit itself) while the
\* FAILURE_MINSTEP bit of an earlier step is still there.
C1_TerminalSurvivesStep ==
    /\ obs.nSteps >= 2
    /\ obs.ret = "end"
    /\ FAILURE_MINSTEP \in impl.state

\* Inside its loop run() can go on: while n < maxIter some answer of the
\* Objective lets the step be taken, and otherwise the loop is left.
RunCanProceed ==
    IF n < impl.ctrl.maxIter
    THEN \E ans \in TryStepAnswers, fEv \in obj.F, JEv \in obj.J :
             /\ ans.doStep = VALID \/ obs.nVetoes < MaxVetoes
             /\ Representable(step(impl, ans, fEv, JEv))
    ELSE TRUE

\* C2: run() terminates after at most maxIter steps (inside the loop it can
\* always go on, and its counter n, bounded by maxIter, grows with every pass
\* that does not return), stops right after the first step that leaves a
\* FINISHED bit, returns a state with a FINISHED bit, and sets
\* FAILURE_MAXITER itself exactly when all maxIter steps (none if
\* maxIter <= 0) ran and none left a FINISHED bit.
C2_RunLoop ==
    /\ [](/\ pc = "run" => /\ obs.runSteps = n
                           /\ n <= LoopLimit
                           /\ n > 0 => impl.state \cap FINISHED = {}
                           /\ RunCanProceed
          /\ (pc = "idle" /\ obs.op = "run") =>
                 /\ impl.state \cap FINISHED # {}
                 /\ obs.runSteps <= LoopLimit
                 /\ obs.runSetMaxIter => FAILURE_MAXITER \in impl.state)
    /\ [][/\ (pc = "run" /\ pc' = "run") =>
                 Stepped /\ n' = n + 1 /\ impl'.state \cap FINISHED = {}
          /\ (pc = "run" /\ pc' = "idle") =>
                 IF obs'.runSetMaxIter
                 THEN /\ ~Stepped
                      /\ obs.runSteps = LoopLimit
                      /\ obs.runSteps > 0 => impl.state \cap FINISHED = {}
                      /\ impl'.state = impl.state \cup {FAILURE_MAXITER}
                 ELSE /\ Stepped
                      /\ impl'.state \cap FINISHED # {}
                      /\ obs'.runSteps <= LoopLimit]_vars

\* run() returned FAILURE_MAXITER after two steps that left no FINISHED bit.
C2_RunExhausted ==
    /\ pc = "idle"
    /\ obs.op = "run"
    /\ obs.runSetMaxIter
    /\ obs.runSteps = 2

\* C3: at the end of every step() call, whatever path it took, STEP_ACCEPTED
\* is set if and only if that step committed its proposal.
C3_AcceptedIffCommitted ==
    obs.nSteps > 0 => (STEP_ACCEPTED \in impl.state <=> obs.committed)

\* C4: after a step in which tryStep was invoked, STEP_MODIFIED is set iff it
\* answered MODIFIED, STEP_INVALID is set iff it answered INVALID, and the two
\* bits are never set together.
C4_VetFlagsFollowTryStep ==
    /\ obs.doStep # "none" =>
           /\ STEP_MODIFIED \in impl.state <=> obs.doStep = MODIFIED
           /\ STEP_INVALID \in impl.state <=> obs.doStep = INVALID
    /\ ~({STEP_MODIFIED, STEP_INVALID} \subseteq impl.state)

\* C5: a step whose tryStep answers INVALID calls neither computeFunction nor
\* computeDerivative, leaves x, f, J, g, Q, normInfF, normInfG and B as they
\* were, leaves QNew at +infinity, and shrinks the trust region: delta / 2
\* with method BFGS, mu * nu and 2 * nu with method LM.
C5_InvalidProposal ==
    [][(Stepped /\ obs'.doStep = INVALID) =>
           /\ obs'.nFunction = 0
           /\ obs'.nDerivative = 0
           /\ \A fld \in {"x", "f", "J", "g", "Q", "normInfF", "normInfG", "B"} :
                  impl'[fld] = impl[fld]
           /\ impl'.QNew = Inf
           /\ impl.method = BFGS => impl'.delta = Div(impl.delta, R(2))
           /\ impl.method = LM => /\ impl'.mu = Mul(impl.mu, impl.nu)
                                  /\ impl'.nu = Mul(impl.nu, R(2))]_vars

\* An INVALID proposal met with method BFGS.
C5_InvalidInBFGS ==
    /\ obs.doStep = INVALID
    /\ obs.methodIn = BFGS
    /\ obs.nSteps > 0

\* C6 as stated: after a first step whose tryStep answers INVALID, delta is
\* delta0 / 2, STEP_INVALID is set and the objective was not evaluated.
C6_FirstInvalidHalvesDelta ==
    (obs.nSteps = 1 /\ obs.doStep = INVALID) =>
        /\ impl.delta = Div(impl.ctrl.delta0, R(2))
        /\ STEP_INVALID \in impl.state
        /\ obs.nFunction = 0
        /\ obs.nDerivative = 0

\* C6, amended: the first step runs with method LM, so after a first step
\* whose tryStep answers INVALID delta is still delta0, mu is twice its
\* initial value tau * max|diag(J^T J)|, nu is 4, STEP_INVALID is set and the
\* objective was not evaluated.
C6_FirstInvalidShrinksMu ==
    (obs.nSteps = 1 /\ obs.doStep = INVALID) =>
        /\ impl.method = LM
        /\ impl.delta = impl.ctrl.delta0
        /\ impl.mu = Mul(R(2), Mul(impl.ctrl.tau, squaredNorm(impl.J)))
        /\ impl.nu = R(4)
        /\ STEP_INVALID \in impl.state
        /\ obs.nFunction = 0
        /\ obs.nDerivative = 0

\* The first step of a fresh optimizer met an INVALID answer.
C6_FirstStepInvalid ==
    /\ obs.nSteps = 1
    /\ obs.doStep = INVALID
    /\ obs.ret = "INVALID"

\* C7: monotone acceptance.  Whenever STEP_ACCEPTED is set after a step() call,
\* Q after the step is <= (1 + sqrtEps) * Q before it, and strictly smaller
\* when the step ran with method LM.
C7_MonotoneAcceptance ==
    [][(Stepped /\ STEP_ACCEPTED \in impl'.state) =>
           /\ LeTol(impl'.Q, impl.Q)
           /\ impl.method = LM => Lt(impl'.Q, impl.Q)]_vars

\* C8: right after construction method = LM, state = 0, count = 0, nu = 2,
\* delta = delta0, x = xNew = the supplied parameters, Q = QNew, and
\* computeFunction and computeDerivative were each called exactly once,
\* also when the starting point already meets fTol or gTol.
C8_Constructed ==
    obs.op = "Impl" =>
        /\ impl.method = LM
        /\ impl.state = {}
        /\ impl.count = 0
        /\ impl.nu = R(2)
        /\ impl.delta = impl.ctrl.delta0
        /\ impl.x \in XVals
        /\ impl.xNew = impl.x
        /\ impl.Q = impl.QNew
        /\ impl.Q = Mul(Rat(1, 2), squaredNorm(impl.f))
        /\ obs.nFunction = 1
        /\ obs.nDerivative = 1

\* A fresh optimizer whose starting point already meets fTol and gTol.
C8_ConstructedAtTolerance ==
    /\ obs.op = "Impl"
    /\ ~Gt(impl.normInfF, impl.ctrl.fTol)
    /\ ~Gt(impl.normInfG, impl.ctrl.gTol)

\* The LM -> BFGS switch rule for delta, from the state after the step.
SwitchDelta ==
    Max(Mul(Mul(Rat(3, 2), impl'.ctrl.minStep),
            Add(squaredNorm(impl'.f), impl'.ctrl.minStep)),
        Mul(Rat(1, 5), obs'.normH))

\* The step ran with method LM and its proposal reached the comparison
\* QNew < Q (it did not return FAILURE_MINSTEP) and was no improvement.
LMNoImprovement ==
    /\ Stepped
    /\ impl.method = LM
    /\ obs'.ret \in {"end", "INVALID"}
    /\ ~obs'.isBetter

\* C9 as stated: every LM step whose proposal is no improvement, an INVALID
\* one included, doubles nu, and if the doubled nu is >= 32 the method is
\* BFGS when the step returns, with delta set by the switch rule.
C9_SwitchWheneverNuReaches32 ==
    [][LMNoImprovement =>
           /\ impl'.nu = Mul(impl.nu, R(2))
           /\ Ge(impl'.nu, R(32)) => /\ impl'.method = BFGS
                                     /\ impl'.delta = SwitchDelta]_vars

\* C9, amended: every LM step whose proposal is no improvement doubles nu.
\* If the proposal was evaluated (tryStep answered VALID or MODIFIED), the
\* method is BFGS when the step returns exactly when the doubled nu is >= 32,
\* with delta set by the switch rule; if tryStep answered INVALID the step
\* returns before the switch, with method LM and delta untouched.
C9_SwitchOnlyWhenEvaluated ==
    [][LMNoImprovement =>
           /\ impl'.nu = Mul(impl.nu, R(2))
           /\ IF obs'.doStep = INVALID
              THEN impl'.method = LM /\ impl'.delta = impl.delta
              ELSE IF Ge(impl'.nu, R(32))
                   THEN impl'.method = BFGS /\ impl'.delta = SwitchDelta
                   ELSE impl'.method = LM /\ impl'.delta = impl.delta]_vars

\* An INVALID proposal brought nu to 32 and the method is still LM.
C9_InvalidAtNu32 ==
    /\ obs.doStep = INVALID
    /\ obs.methodIn = LM
    /\ impl.method = LM
    /\ Ge(impl.nu, R(32))

\* C10 as stated: from a fresh optimizer whose evaluated LM proposals are all
\* rejected the method stays LM for four steps and is BFGS after the fifth.
C10_SwitchOnFifthReject ==
    /\ obs.rejectRun \in 1..4 => impl.method = LM
    /\ obs.rejectRun = 5 => impl.method = BFGS

\* C10, amended: nu goes 2, 4, 8, 16, 32, so the method stays LM for three
\* rejected evaluated steps and is BFGS after the fourth, where nu is 32.
C10_SwitchOnFourthReject ==
    /\ obs.rejectRun \in 0..3 => /\ impl.method = LM
                                 /\ impl.nu = R(2 ^ (obs.rejectRun + 1))
    /\ obs.rejectRun = 4 => /\ impl.method = BFGS
                            /\ impl.nu = R(32)
    /\ obs.rejectRun <= 4

\* Four rejected evaluated LM steps in a row since construction.
C10_FourRejects ==
    obs.rejectRun = 4

\* C11: count never exceeds 3, and whenever an accepted LM step is the third
\* consecutive accepted near-linear LM step (counted anew after a switch to
\* BFGS and back), the method is BFGS at the end of that step.
C11_CountSwitchesOnThird ==
    /\ impl.count <= 3
    /\ (obs.methodIn = LM /\ obs.committed /\ obs.near /\ obs.nearRun = 3) =>
           impl.method = BFGS

\* y = JNew^T (JNew h) + (gNew - g) of the step just taken, from the g it
\* started with and the h, JNew and gNew it left.
StepY == Add(Mul(squaredNorm(impl'.JNew), impl'.h), Sub(impl'.gNew, impl.g))

\* The step just taken gave B its rank-2 update (lines 226-227) exactly when
\* h.y > 0, and left B alone otherwise.
StepUpdatesBIffHY ==
    \E hv \in {impl'.h}, Bv \in {impl.B}, yv \in {StepY} :
        \E hy \in {Mul(hv, yv)}, vv \in {Mul(Bv, hv)} :
            \E B1 \in {rankUpdate(Bv, vv, Div(R(-1), Mul(hv, vv)))} :
                /\ obs'.updatedB <=> Gt(hy, Zero)
                /\ impl'.B = IF obs'.updatedB
                             THEN rankUpdate(B1, yv, Div(R(1), hy))
                             ELSE Bv

\* C12 as stated: every step that evaluated the objective at the trial
\* point, whatever the method and whether accepted or not, gives B the rank-2
\* update iff h.y > 0; a step without evaluation leaves B unchanged.
C12_EvaluatedStepUpdatesB ==
    [][Stepped =>
           IF obs'.nFunction = 1
           THEN StepUpdatesBIffHY
           ELSE ~obs'.updatedB /\ impl'.B = impl.B]_vars

\* C12, amended: an evaluated step that does not return FAILURE_MINTRUST
\* from the BFGS trust-region update gives B the rank-2 update iff h.y > 0,
\* for both methods and accepted or not; a step without evaluation, and an
\* evaluated BFGS step that returns with FAILURE_MINTRUST, leave B unchanged.
C12_CompletedStepUpdatesB ==
    [][Stepped =>
           IF obs'.nFunction = 1 /\ obs'.ret # "MINTRUST"
           THEN obs'.ret = "end" /\ StepUpdatesBIffHY
           ELSE ~obs'.updatedB /\ impl'.B = impl.B]_vars

\* An evaluated BFGS step returned FAILURE_MINTRUST with h.y > 0 and B as
\* it was (nothing was committed, so g is still the g the step started with).
C12_MinTrustSkipsUpdate ==
    /\ obs.ret = "MINTRUST"
    /\ obs.nFunction = 1
    /\ ~obs.updatedB
    /\ Gt(Mul(impl.h, Add(Mul(squaredNorm(impl.JNew), impl.h), Sub(impl.gNew, impl.g))),
          Zero)

\* C13: at every step boundary with method LM, A = J^T J + mu I for the
\* accepted Jacobian J and the current mu: after construction, after accepted,
\* rejected and INVALID LM steps, and after a switch from BFGS to LM.
C13_DampedNormalMatrix ==
    impl.method = LM => impl.A = Add(rankUpdateJ(Zero, impl.J), impl.mu)

\* A BFGS step has just switched the method back to LM.
C13_BackInLM ==
    /\ obs.methodIn = BFGS
    /\ obs.ret = "end"
    /\ impl.method = LM

\* The first minimum-step guard of the step about to be taken fires: the
\* solved h has a norm not above minStep * (|x| + minStep).
FirstGuardFires ==
    ~Gt(Fabs(solve(impl, IF impl.method = LM THEN impl.A ELSE impl.B).h),
        Mul(impl.ctrl.minStep, Add(Fabs(impl.x), impl.ctrl.minStep)))

\* C14: a step whose first minimum-step guard fires sets FAILURE_MINSTEP and
\* returns without calling tryStep, computeFunction or computeDerivative; it
\* leaves x, xNew, f, fNew, Q, QNew, mu, nu, delta, count, method, A, B (and
\* J, JNew, g, gNew, the norms) and every other state flag unchanged.
C14_FirstGuardReturns ==
    [][(Stepped /\ FirstGuardFires) =>
           /\ obs'.ret = "MINSTEP"
           /\ obs'.doStep = "none"
           /\ obs'.nFunction = 0
           /\ obs'.nDerivative = 0
           /\ impl'.state = impl.state \cup {FAILURE_MINSTEP}
           /\ \A fld \in {"x", "xNew", "f", "fNew", "Q", "QNew", "mu", "nu", "delta",
                          "count", "method", "A", "B", "J", "JNew", "g", "gNew",
                          "normInfF", "normInfG"} : impl'[fld] = impl[fld]]_vars

\* The first guard fired in a step that found other flags set and left them.
C14_FirstGuardFired ==
    /\ obs.ret = "MINSTEP"
    /\ obs.doStep = "none"
    /\ FAILURE_MINSTEP \in impl.state
    /\ impl.state \cap StepFlags # {}

\* C15: whenever a step computes y = JNew^T (JNew h) + (gNew - g) (it got
\* past line 219), gNew is the gradient JNew^T fNew of the trial point that
\* same step evaluated, for both methods, accepted or rejected.
C15_FreshTrialGradient ==
    obs.ret = "end" =>
        /\ obs.freshG
        /\ impl.gNew = adjointTimes(impl.JNew, impl.fNew)

\* The terminal bits of the state.
Terminal == impl.state \cap FINISHED

C17_SuccessMeansWithinTolerance ==
    /\ SUCCESS_FTOL \in impl.state => Le(impl.normInfF, impl.ctrl.fTol)
    /\ SUCCESS_GTOL \in impl.state => Le(impl.normInfG, impl.ctrl.gTol)

\* C17, amended: a SUCCESS bit is set only by a step that commits a point
\* whose norm meets the tolerance, every such commit sets it, and it then
\* stays set, also when a later accepted point no longer meets the tolerance.
C17_SuccessSetAtCommit ==
    [][/\ SUCCESS_FTOL \in impl'.state <=>
              \/ SUCCESS_FTOL \in impl.state
              \/ Stepped /\ obs'.committed /\ Le(impl'.normInfF, impl'.ctrl.fTol)
       /\ SUCCESS_GTOL \in impl'.state <=>
              \/ SUCCESS_GTOL \in impl.state
              \/ Stepped /\ obs'.committed /\ Le(impl'.normInfG, impl'.ctrl.gTol)]_vars

\* Both SUCCESS bits are set and the point accepted last meets neither
\* tolerance.
C17_SuccessOutlived ==
    /\ obs.committed
    /\ {SUCCESS_FTOL, SUCCESS_GTOL} \subseteq impl.state
    /\ Gt(impl.normInfF, impl.ctrl.fTol)
    /\ Gt(impl.normInfG, impl.ctrl.gTol)

\* run() has been entered, has made no step yet, and the state it was called
\* on has a FINISHED bit.
RunEnteredFinished ==
    /\ pc = "run"
    /\ n = 0
    /\ obs.runSteps = 0
    /\ Terminal # {}

\* C18 as stated: run() called on a state with a FINISHED bit executes no
\* engine step and returns with x, Q, mu, nu, delta, method and all flags
\* unchanged.
C18_RunOnFinishedIsNoOp ==
    [][RunEnteredFinished =>
           /\ ~Stepped
           /\ pc' = "idle"
           /\ impl'.state = impl.state
           /\ \A fld \in {"x", "Q", "mu", "nu", "delta", "method"} :
                  impl'[fld] = impl[fld]]_vars

\* C18, amended: run() called on a state with a FINISHED bit executes exactly
\* one engine step when maxIter > 0 and returns right after it, the FINISHED
\* bits still set; when maxIter <= 0 it executes no step, adds
\* FAILURE_MAXITER and changes nothing else.
C18_RunOnFinishedStepsOnce ==
    [][RunEnteredFinished =>
           /\ pc' = "idle"
           /\ IF impl.ctrl.maxIter > 0
              THEN /\ Stepped
                   /\ obs'.runSteps = 1
                   /\ ~obs'.runSetMaxIter
                   /\ Terminal \subseteq impl'.state
              ELSE /\ ~Stepped
                   /\ impl' = [impl EXCEPT !.state = @ \cup {FAILURE_MAXITER}]]_vars

\* run() returned after one step that ran to its end and committed a new
\* point, on a state whose FAILURE_MINSTEP bit was there before the call.
C18_RunSteppedOnFinished ==
    /\ pc = "idle"
    /\ obs.op = "run"
    /\ obs.runSteps = 1
    /\ obs.ret = "end"
    /\ obs.committed
    /\ FAILURE_MINSTEP \in impl.state

=============================================================================
